---- MODULE Spec2Model ----
(***************************************************************************)
(* State-machine model of the IEP Harmony file-processing backend: the     *)
(* three server variants (src/server.js, src/unnamed/part_000,             *)
(* src/unnamed/part_001), their middleware chain, the /upload handler with *)
(* its suspension at the extraction call, /analyze, /health, /, the 404    *)
(* handler and the error middleware.                                       *)
(*                                                                         *)
(* Strings that the code inspects (filenames, extracted text, the /analyze *)
(* fields) are sequences of one-character strings, so that toLowerCase,    *)
(* endsWith, trim and length are computed.  Message literals that the code *)
(* only passes along are TLA+ strings.  Wall-clock values (timestamp,      *)
(* processingTime, uptime) are left out of the response bodies.            *)
(***************************************************************************)
EXTENDS Integers, Sequences, FiniteSets, TLC

\* Longest extracted text the extraction libraries produce in the model.
MaxTextLen == 2

\* Connections that can be in flight at the same time: r1 sends every request of
\* RequestInputs, r2 the ones of BackgroundInputs.
Requests == {"r1", "r2"}

\* The three server files of the repository; one of them is the running process.
Variants == {"server.js", "part_000", "part_001"}
Enhanced == {"part_000", "part_001"}

\* multer limits.fileSize
FileSizeLimit == 10 * 1024 * 1024

(***************************************************************************)
(* JavaScript values: a string or undefined.                               *)
(***************************************************************************)
Undefined == [t |-> "undefined", s |-> <<>>]
Str(s) == [t |-> "string", s |-> s]

\* The 25 code units String.prototype.trim strips (WhiteSpace and LineTerminator
\* of ECMAScript).  A code unit with no TLA+ escape is written by its code point.
WhiteSpace ==
  {"\t", "\n", "U+000B", "\f", "\r", " ", "U+00A0", "U+1680",
   "U+2000", "U+2001", "U+2002", "U+2003", "U+2004", "U+2005", "U+2006", "U+2007",
   "U+2008", "U+2009", "U+200A", "U+2028", "U+2029", "U+202F", "U+205F", "U+3000",
   "U+FEFF"}
TextChars == {"a", " "}
\* Texts whose white space is not the space character.
OtherWhiteSpaceTexts == {<<"\f">>, <<" ", "U+00A0">>, <<"U+FEFF", "a">>}

RECURSIVE SeqsUpTo(_, _)
SeqsUpTo(S, n) ==
  IF n = 0 THEN {<<>>}
  ELSE LET shorter == SeqsUpTo(S, n - 1)
       IN shorter \cup {Append(s, c) : s \in {x \in shorter : Len(x) = n - 1}, c \in S}

\* String.prototype.toLowerCase on ASCII code units, the alphabet of the model's
\* filenames: the 26 capitals are lowered, every other ASCII code unit is kept.
LowerChar(c) ==
  CASE c = "A" -> "a"
    [] c = "B" -> "b"
    [] c = "C" -> "c"
    [] c = "D" -> "d"
    [] c = "E" -> "e"
    [] c = "F" -> "f"
    [] c = "G" -> "g"
    [] c = "H" -> "h"
    [] c = "I" -> "i"
    [] c = "J" -> "j"
    [] c = "K" -> "k"
    [] c = "L" -> "l"
    [] c = "M" -> "m"
    [] c = "N" -> "n"
    [] c = "O" -> "o"
    [] c = "P" -> "p"
    [] c = "Q" -> "q"
    [] c = "R" -> "r"
    [] c = "S" -> "s"
    [] c = "T" -> "t"
    [] c = "U" -> "u"
    [] c = "V" -> "v"
    [] c = "W" -> "w"
    [] c = "X" -> "x"
    [] c = "Y" -> "y"
    [] c = "Z" -> "z"
    [] OTHER -> c
toLowerCase(s) == [i \in 1..Len(s) |-> LowerChar(s[i])]

\* String.prototype.endsWith
endsWith(s, suffix) ==
  /\ Len(suffix) <= Len(s)
  /\ SubSeq(s, Len(s) - Len(suffix) + 1, Len(s)) = suffix

\* String.prototype.trim
RECURSIVE trimStart(_)
trimStart(s) == IF s # <<>> /\ Head(s) \in WhiteSpace THEN trimStart(Tail(s)) ELSE s
RECURSIVE trimEnd(_)
trimEnd(s) ==
  IF s # <<>> /\ s[Len(s)] \in WhiteSpace THEN trimEnd(SubSeq(s, 1, Len(s) - 1)) ELSE s
trim(s) == trimEnd(trimStart(s))

\* JavaScript truthiness of a string-or-undefined value.
Truthy(v) == v.t = "string" /\ Len(v.s) > 0

\* Decimal digits of a natural number, as a template literal prints it.
DigitChar(d) == CASE d = 0 -> "0" [] d = 1 -> "1" [] d = 2 -> "2" [] d = 3 -> "3"
                  [] d = 4 -> "4" [] d = 5 -> "5" [] d = 6 -> "6" [] d = 7 -> "7"
                  [] d = 8 -> "8" [] d = 9 -> "9"
RECURSIVE Decimal(_)
Decimal(n) == IF n < 10 THEN <<DigitChar(n)>>
              ELSE Append(Decimal(n \div 10), DigitChar(n % 10))

DotDocx == <<".", "d", "o", "c", "x">>
DotPdf == <<".", "p", "d", "f">>
supportedTypes == <<DotDocx, DotPdf>>

(***************************************************************************)
(* Errors and responses.                                                   *)
(***************************************************************************)
Err(name, code, message) == [name |-> name, code |-> code, message |-> message]
NoErr == Err("", "", "")
LimitFileSize == Err("MulterError", "LIMIT_FILE_SIZE", "File too large")
LimitUnexpectedFile == Err("MulterError", "LIMIT_UNEXPECTED_FILE", "Unexpected field")
JsonSyntaxError == Err("SyntaxError", "", "Unexpected token in JSON")
TypeErrorDestructure ==
  Err("TypeError", "",
      "Cannot destructure property 'accommodations' of 'req.body' as it is undefined.")
TypeErrorLength ==
  Err("TypeError", "", "Cannot read properties of undefined (reading 'length')")

\* res.status(status).json(body)
Json(status, body) == [status |-> status, body |-> body]

\* JSON.stringify drops the keys whose value is undefined.
OmitUndefined(rec, keys) ==
  [k \in DOMAIN rec \ {x \in keys \cap DOMAIN rec : rec[x] = Undefined} |-> rec[k]]

\* What a piece of handler code ends with: a response sent, or an exception.
\* or (for the /upload handler) a suspension at an extraction library call.
NoResp == Json(0, [error |-> ""])
Respond(r) == [type |-> "respond", resp |-> r, err |-> NoErr, lib |-> ""]
Throw(e) == [type |-> "throw", resp |-> NoResp, err |-> e, lib |-> ""]
Await(lib) == [type |-> "await", resp |-> NoResp, err |-> NoErr, lib |-> lib]

(***************************************************************************)
(* Inputs: what a client can send and what the extraction libraries can do *)
(* with an uploaded buffer.                                                *)
(***************************************************************************)
\* Outcome of an extraction library call: result.value / data.text, or a throw.
Return(v) == [kind |-> "return", value |-> v, err |-> NoErr]
Thrown(e) == [kind |-> "throw", value |-> Undefined, err |-> e]
CorruptFile == Err("Error", "", "corrupt file")

Texts == SeqsUpTo(TextChars, MaxTextLen) \cup OtherWhiteSpaceTexts
Outcomes ==
  {Return(Str(s)) : s \in Texts} \cup {Return(Undefined)}
    \cup {Thrown(CorruptFile), Thrown(LimitFileSize)}

FileNames ==
  { <<"a", ".", "d", "o", "c", "x">>,
    <<"A", ".", "D", "O", "C", "X">>,
    <<"b", ".", "p", "d", "f">>,
    <<"b", ".", "P", "d", "f">>,
    <<"c", ".", "t", "x", "t">>,
    <<"E", ".", "T", "X", "T">> }
FileSizes == {1, FileSizeLimit, FileSizeLimit + 1}

\* An uploaded buffer: its byte length and what the libraries make of its bytes.
Buffer(size, doc) == [length |-> size, doc |-> doc]
NoBuffer == Buffer(0, Return(Undefined))

AnalyzeFields == {Undefined, Str(<<>>), Str(<<"a", "b", "c">>)}

Request(route, part, name, size, doc, json, acc, lp) ==
  [route |-> route, part |-> part, filename |-> name, size |-> size, doc |-> doc,
   json |-> json, accommodations |-> acc, lessonPlan |-> lp]
NoRequest == Request("", "none", <<>>, 0, Return(Undefined), "none", Undefined, Undefined)
Simple(route) ==
  Request(route, "none", <<>>, 0, Return(Undefined), "none", Undefined, Undefined)

UploadRequests ==
  {Request("POST /upload", "file", n, sz, d, "none", Undefined, Undefined) :
     n \in FileNames, sz \in FileSizes, d \in Outcomes}
    \cup {Request("POST /upload", "doc", <<"a", ".", "d", "o", "c", "x">>, 1,
                  Return(Str(<<"a">>)), "none", Undefined, Undefined),
          Simple("POST /upload")}
AnalyzeRequests ==
  {Request("POST /analyze", "none", <<>>, 0, Return(Undefined), "object", a, l) :
     a \in AnalyzeFields, l \in AnalyzeFields}
    \cup {Request("POST /analyze", "none", <<>>, 0, Return(Undefined), "malformed",
                  Undefined, Undefined),
          Simple("POST /analyze")}
OtherRequests == {Simple("GET /"), Simple("GET /health"), Simple("GET /nonexistent")}
RequestInputs == UploadRequests \cup AnalyzeRequests \cup OtherRequests

\* What the second connection sends while the first one is served: one request of
\* each kind of outcome.
BackgroundInputs ==
  { Request("POST /upload", "file", <<"b", ".", "p", "d", "f">>, 1,
            Return(Str(<<"a">>)), "none", Undefined, Undefined),
    Request("POST /upload", "file", <<"A", ".", "D", "O", "C", "X">>, 1,
            Thrown(CorruptFile), "none", Undefined, Undefined),
    Request("POST /upload", "file", <<"a", ".", "d", "o", "c", "x">>, FileSizeLimit,
            Return(Undefined), "none", Undefined, Undefined),
    Request("POST /upload", "file", <<"c", ".", "t", "x", "t">>, FileSizeLimit + 1,
            Return(Str(<<"a">>)), "none", Undefined, Undefined),
    Simple("POST /upload"),
    Request("POST /analyze", "none", <<>>, 0, Return(Undefined), "malformed",
            Undefined, Undefined),
    Simple("GET /nonexistent") }
InputsOf(r) == IF r = "r1" THEN RequestInputs ELSE BackgroundInputs

(***************************************************************************)
(* multer: upload.single('file') with memory storage.                      *)
(***************************************************************************)
File(originalname, buffer) ==
  [present |-> TRUE, originalname |-> originalname, buffer |-> buffer]
NoFile == [present |-> FALSE, originalname |-> <<>>, buffer |-> NoBuffer]

\* limits.fileSize applies to the enhanced servers only; server.js sets no limit.
\* (FileSizeUnlimited: the defect of a server that configures no limit.)
FileSizeUnlimited(v, size) == FALSE
FileSizeExceeded(v, size) == v \in Enhanced /\ size > FileSizeLimit

\* Result of the middleware: the error handed to next(err), and req.file.
uploadSingle(v, q) ==
  IF q.part = "none" THEN [err |-> NoErr, file |-> NoFile]
  ELSE IF q.part # "file" THEN [err |-> LimitUnexpectedFile, file |-> NoFile]
  ELSE IF FileSizeExceeded(v, q.size) THEN [err |-> LimitFileSize, file |-> NoFile]
  ELSE [err |-> NoErr, file |-> File(q.filename, Buffer(q.size, q.doc))]

(***************************************************************************)
(* The /upload handler.                                                    *)
(***************************************************************************)
\* Which extraction path the filename selects.
FileKind(v, originalname) ==
  IF v = "server.js"
  THEN IF endsWith(originalname, DotDocx) THEN "docx"
       ELSE IF endsWith(originalname, DotPdf) THEN "pdf" ELSE "other"
  ELSE IF endsWith(toLowerCase(originalname), DotDocx) THEN "docx"
       ELSE IF endsWith(toLowerCase(originalname), DotPdf) THEN "pdf" ELSE "other"

MissingFile(v) == Json(400, [error |-> "No file uploaded."])

\* (UnsupportedTypeNoList: the defect of leaving supportedTypes out.)
UnsupportedTypeNoList(v) ==
  Json(400, [error |-> "Unsupported file type. Please upload a .docx or .pdf file."])
UnsupportedType(v) ==
  CASE v = "server.js" ->
         Json(400, [error |-> "Unsupported file type. Please upload a .docx or .pdf file."])
    [] v = "part_000" ->
         Json(400, [error |-> "Unsupported file type.", supportedTypes |-> supportedTypes])
    [] v = "part_001" ->
         Json(400, [error |-> "Unsupported file type. Please upload a .docx or .pdf file.",
                    supportedTypes |-> supportedTypes])

DocxFailed000 == "Failed to process DOCX file."
PdfFailed000 == "Failed to process PDF file."
DocxFailed001 ==
  "Failed to process DOCX file. The file may be corrupted or in an unsupported format."
PdfFailed001 ==
  "Failed to process PDF file. The file may be corrupted, password-protected, or contain only images."

\* The inner catch blocks around the two extraction calls.
\* (ExtractionFailedNoDetails: the defect of a generic message without details.)
ExtractionFailedNoDetails(v, lib, e) ==
  Json(500, [error |-> "Failed to process file."])
ExtractionFailed(v, lib, e) ==
  Json(500, [error |-> IF v = "part_000"
                       THEN (IF lib = "mammoth" THEN DocxFailed000 ELSE PdfFailed000)
                       ELSE (IF lib = "mammoth" THEN DocxFailed001 ELSE PdfFailed001),
             details |-> e.message])

\* The outer catch block of the handler.
Unexpected(v, e) ==
  CASE v = "server.js" -> Json(500, [error |-> "Failed to process file."])
    [] v = "part_000" ->
         Json(500, [error |-> "Unexpected error during file processing.",
                    details |-> e.message])
    [] v = "part_001" ->
         Json(500, [error |-> "An unexpected error occurred while processing the file.",
                    details |-> e.message])

\* (RethrowUncaught: the defect of a handler without its outer try/catch.)
RethrowUncaught(v, c) == c
tryCatch(v, c) == IF c.type = "throw" THEN Respond(Unexpected(v, c.err)) ELSE c

\* The "no text" test: !extractedText?.trim() in part_000,
\* !extractedText || extractedText.trim().length === 0 in part_001.
NoText(v, extractedText) ==
  IF v = "part_000"
  THEN ~Truthy(IF extractedText = Undefined THEN Undefined ELSE Str(trim(extractedText.s)))
  ELSE ~Truthy(extractedText) \/ Len(trim(extractedText.s)) = 0

NoTextMsg(v) ==
  IF v = "part_000" THEN "No text extracted."
  ELSE "No text content could be extracted from the file. The file may be empty or contain only images."

\* The success body: text and metadata built from the handler's locals.
\* (SuccessTrimmedLength: the defect of reporting the trimmed length.)
SuccessTrimmedLength(v, locals, extractedText) ==
  Json(200, [text |-> extractedText,
             metadata |-> [originalName |-> locals.originalname,
                           fileSize |-> locals.fileSize,
                           extractedLength |-> Len(trim(extractedText.s))]])
Success(v, locals, extractedText) ==
  Json(200, [text |-> extractedText,
             metadata |-> [originalName |-> locals.originalname,
                           fileSize |-> locals.fileSize,
                           extractedLength |-> Len(extractedText.s)]])

\* From "Validate extracted text" to the 200 response (enhanced servers).
\* Reading .length of undefined throws a TypeError.
CheckText(v, locals, extractedText) ==
  IF NoText(v, extractedText)
  THEN IF extractedText = Undefined
       THEN Throw(TypeErrorLength)
       ELSE Respond(Json(422, [error |-> NoTextMsg(v),
                               extractedLength |-> Len(extractedText.s)]))
  ELSE Respond(Success(v, locals, extractedText))

\* The handler from its first line to the extraction call or an early response.
UploadEntry(v, file) ==
  IF ~file.present THEN Respond(MissingFile(v))
  ELSE CASE FileKind(v, file.originalname) = "docx" -> Await("mammoth")
         [] FileKind(v, file.originalname) = "pdf" -> Await("pdf-parse")
         [] OTHER -> Respond(UnsupportedType(v))

\* The handler from the settled extraction call to its response.
UploadResume(v, locals, lib, outcome) ==
  IF v = "server.js"
  THEN IF outcome.kind = "throw" THEN Throw(outcome.err)
       ELSE Respond(Json(200, OmitUndefined([text |-> outcome.value], {"text"})))
  ELSE IF outcome.kind = "throw" THEN Respond(ExtractionFailed(v, lib, outcome.err))
       ELSE CheckText(v, locals, outcome.value)

(***************************************************************************)
(* /analyze, /health, /, the 404 handler and the error middleware.         *)
(***************************************************************************)
SummaryPrefix ==
  <<"A", "c", "c", "o", "m", "m", "o", "d", "a", "t", "i", "o", "n", "s", " ", "a",
    "n", "d", " ", "l", "e", "s", "s", "o", "n", " ", "p", "l", "a", "n", " ", "r",
    "e", "c", "e", "i", "v", "e", "d", " ", "(">>
SummarySep == <<" ", "/", " ">>
SummarySuffix ==
  <<" ", "c", "h", "a", "r", "a", "c", "t", "e", "r", "s", ")", ".">>

\* x?.length || 0
\* (LengthOfString: the defect of measuring String(x), 'undefined' being 9 long.)
LengthOfString(x) == IF x = Undefined THEN 9 ELSE Len(x.s)
LengthOrZero(x) == IF x = Undefined THEN 0 ELSE IF Len(x.s) = 0 THEN 0 ELSE Len(x.s)

\* app.use(express.json()) is registered by part_000 only.
HasJsonParser(v) == v = "part_000"

\* The major versions of Express the servers can be installed with (src/ pins
\* none): they differ in req.body when no body was parsed and in what becomes of
\* a rejected async handler.
ExpressVersions == {"4", "5"}

\* req.body as the handler finds it.  express.json() parses a JSON body; for a
\* request without one it leaves {} under Express 4 and undefined under Express 5.
\* Without the parser req.body stays undefined.
ReqBody(defined, acc, lp) == [defined |-> defined, accommodations |-> acc, lessonPlan |-> lp]
reqBody(v, ex, q) ==
  IF HasJsonParser(v) /\ q.json = "object"
  THEN ReqBody(TRUE, q.accommodations, q.lessonPlan)
  ELSE IF HasJsonParser(v) /\ ex = "4"
  THEN ReqBody(TRUE, Undefined, Undefined)
  ELSE ReqBody(FALSE, Undefined, Undefined)

\* The try block of the /analyze handler: destructuring an undefined body throws.
analyzeTry(body) ==
  IF ~body.defined THEN Throw(TypeErrorDestructure)
  ELSE Respond(
    Json(200, [message |-> "Analysis received.",
               summary |-> SummaryPrefix \o Decimal(LengthOrZero(body.accommodations))
                             \o SummarySep \o Decimal(LengthOrZero(body.lessonPlan))
                             \o SummarySuffix,
               received |-> OmitUndefined([accommodations |-> body.accommodations,
                                           lessonPlan |-> body.lessonPlan],
                                          {"accommodations", "lessonPlan"})]))

\* The handler: the try block under its catch.
analyze(body) ==
  LET c == analyzeTry(body)
  IN IF c.type = "throw"
     THEN Respond(Json(500, [error |-> "Failed to analyze input.",
                             details |-> c.err.message]))
     ELSE c

health == Json(200, [status |-> "healthy"])
root == Json(200, [message |-> "IEP Harmony File Processing Server"])

\* Express's built-in responses, used where the server registers no handler.
DefaultNotFound == Json(404, [html |-> "Cannot find route"])
DefaultError == Json(500, [html |-> "Internal Server Error"])

notFound(v) ==
  CASE v = "server.js" -> DefaultNotFound
    [] v = "part_000" ->
         Json(404, [error |-> "Endpoint not found",
                    availableEndpoints |->
                      <<"GET /", "GET /health", "POST /upload", "POST /analyze">>])
    [] v = "part_001" ->
         Json(404, [error |-> "Endpoint not found",
                    availableEndpoints |-> <<"GET /", "GET /health", "POST /upload">>])

\* (errorMiddlewareAlways500: the defect of an error middleware without the
\* MulterError test.)
errorMiddlewareAlways500(v, error) == Json(500, [error |-> "Internal server error"])
errorMiddleware(v, error) ==
  CASE v = "server.js" -> DefaultError
    [] v = "part_000" ->
         IF error.name = "MulterError" /\ error.code = "LIMIT_FILE_SIZE"
         THEN Json(413, [error |-> "File too large. Max size is 10MB."])
         ELSE Json(500, [error |-> "Internal server error"])
    [] v = "part_001" ->
         IF error.name = "MulterError" /\ error.code = "LIMIT_FILE_SIZE"
         THEN Json(413, [error |-> "File too large. Maximum size is 10MB.",
                         maxSize |-> "10MB"])
         ELSE Json(500, [error |-> "Internal server error"])

\* The routes each server registers.
Routes(v) ==
  CASE v = "server.js" -> {"POST /upload"}
    [] v = "part_000" -> {"GET /", "GET /health", "POST /upload", "POST /analyze"}
    [] v = "part_001" -> {"GET /", "GET /health", "POST /upload"}


(***************************************************************************)
(* State.                                                                  *)
(***************************************************************************)
VARIABLES
  variant,   \* which server file the process runs
  express,   \* which major version of Express it runs on
  exit,      \* "running", or why the process ended
  pc,        \* per request: where in the middleware chain it is
  req,       \* per request: what the client sent
  file,      \* per request: req.file as multer set it
  error,     \* per request: the error handed to next(err)
  frame,     \* the handler's local variables, per scope
  promise,   \* per request: the extraction call it awaits
  resp,      \* per request: the responses sent so far
  path,      \* per request: the stages that ran, in order
  overlap    \* per request: it was suspended while another request was suspended

vars == <<variant, express, exit, pc, req, file, error, frame, promise, resp, path, overlap>>

Locals(originalname, fileSize, buffer) ==
  [originalname |-> originalname, fileSize |-> fileSize, buffer |-> buffer]
NoLocals == Locals(<<>>, 0, NoBuffer)
NoPromise == [lib |-> "", buffer |-> NoBuffer]

\* The scope holding a request's locals: const/let inside the handler give every
\* invocation its own.
\* (ModuleScope: the defect of locals declared at module level, shared by all.)
ModuleScope(r) == "r1"
FrameOf(r) == r

Init ==
  /\ variant \in Variants
  /\ express \in ExpressVersions
  /\ exit = "running"
  /\ pc = [r \in Requests |-> "idle"]
  /\ req = [r \in Requests |-> NoRequest]
  /\ file = [r \in Requests |-> NoFile]
  /\ error = [r \in Requests |-> NoErr]
  /\ frame = [r \in Requests |-> NoLocals]
  /\ promise = [r \in Requests |-> NoPromise]
  /\ resp = [r \in Requests |-> <<>>]
  /\ path = [r \in Requests |-> <<>>]
  /\ overlap = [r \in Requests |-> FALSE]

\* A handler invocation ends: with a response, or with an exception nothing in the
\* handler caught.  Express 5 hands a rejected async handler to the error
\* middleware; under Express 4 nobody handles the rejection, which leaves the
\* request unanswered and, depending on the Node version, ends the process.  The
\* invocation's scope (its locals and its pending call) is gone either way.
Finish(r, c, stage) ==
  /\ path' = [path EXCEPT ![r] = Append(@, stage)]
  /\ frame' = [frame EXCEPT ![FrameOf(r)] = NoLocals]
  /\ promise' = [promise EXCEPT ![r] = NoPromise]
  /\ IF c.type = "respond"
     THEN /\ resp' = [resp EXCEPT ![r] = Append(@, c.resp)]
          /\ pc' = [pc EXCEPT ![r] = "done"]
          /\ UNCHANGED <<exit, error>>
     ELSE IF express = "5"
     THEN /\ error' = [error EXCEPT ![r] = c.err]
          /\ pc' = [pc EXCEPT ![r] = "error"]
          /\ UNCHANGED <<exit, resp>>
     ELSE /\ UNCHANGED <<resp, error>>
          /\ pc' = [pc EXCEPT ![r] = "hung"]
          /\ exit' \in {"running", "unhandledRejection"}

(***************************************************************************)
(* Actions.                                                                *)
(***************************************************************************)
\* A client sends a request on a free connection.
Arrive(r) ==
  /\ exit = "running"
  /\ pc[r] = "idle"
  /\ \E q \in InputsOf(r) : req' = [req EXCEPT ![r] = q]
  /\ pc' = [pc EXCEPT ![r] = "dispatch"]
  /\ UNCHANGED <<variant, express, exit, file, error, frame, promise, resp, path, overlap>>

\* The client has read the response; the connection is free for a later request.
Close(r) ==
  /\ exit = "running"
  /\ pc[r] = "done"
  /\ pc' = [pc EXCEPT ![r] = "idle"]
  /\ req' = [req EXCEPT ![r] = NoRequest]
  /\ file' = [file EXCEPT ![r] = NoFile]
  /\ error' = [error EXCEPT ![r] = NoErr]
  /\ resp' = [resp EXCEPT ![r] = <<>>]
  /\ path' = [path EXCEPT ![r] = <<>>]
  /\ overlap' = [overlap EXCEPT ![r] = FALSE]
  /\ UNCHANGED <<variant, express, exit, frame, promise>>

\* cors(), express.json() where registered, then route matching.
Dispatch(r) ==
  /\ exit = "running"
  /\ pc[r] = "dispatch"
  /\ IF HasJsonParser(variant) /\ req[r].json = "malformed"
     THEN /\ error' = [error EXCEPT ![r] = JsonSyntaxError]
          /\ pc' = [pc EXCEPT ![r] = "error"]
     ELSE /\ error' = error
          /\ pc' = [pc EXCEPT ![r] =
                      IF req[r].route \notin Routes(variant) THEN "notfound"
                      ELSE CASE req[r].route = "POST /upload" -> "multer"
                             [] req[r].route = "POST /analyze" -> "analyze"
                             [] req[r].route = "GET /health" -> "health"
                             [] req[r].route = "GET /" -> "root"]
  /\ path' = [path EXCEPT ![r] = Append(@, "dispatch")]
  /\ UNCHANGED <<variant, express, exit, req, file, frame, promise, resp, overlap>>

\* upload.single('file'): body parsing of the multipart request.
Multer(r) ==
  /\ exit = "running"
  /\ pc[r] = "multer"
  /\ LET m == uploadSingle(variant, req[r])
     IN /\ file' = [file EXCEPT ![r] = m.file]
        /\ error' = [error EXCEPT ![r] = m.err]
        /\ pc' = [pc EXCEPT ![r] = IF m.err = NoErr THEN "upload" ELSE "error"]
  /\ path' = [path EXCEPT ![r] = Append(@, "multer")]
  /\ UNCHANGED <<variant, express, exit, req, frame, promise, resp, overlap>>

\* The /upload handler up to its first suspension or early response.
UploadHandler(r) ==
  /\ exit = "running"
  /\ pc[r] = "upload"
  /\ LET c == tryCatch(variant, UploadEntry(variant, file[r]))
     IN IF c.type = "await"
        THEN /\ frame' = [frame EXCEPT ![FrameOf(r)] =
                            Locals(file[r].originalname, file[r].buffer.length,
                                   file[r].buffer)]
             /\ promise' = [promise EXCEPT ![r] =
                              [lib |-> c.lib, buffer |-> file[r].buffer]]
             /\ pc' = [pc EXCEPT ![r] = "await"]
             /\ path' = [path EXCEPT ![r] = @ \o <<"upload", c.lib>>]
             /\ overlap' = [x \in Requests |->
                              IF \E y \in Requests \ {r} : pc[y] = "await"
                              THEN x = r \/ pc[x] = "await" \/ overlap[x]
                              ELSE overlap[x]]
             /\ UNCHANGED <<resp, exit, error>>
        ELSE Finish(r, c, "upload") /\ overlap' = overlap
  /\ UNCHANGED <<variant, express, req, file>>

\* The awaited extraction call settles and the handler runs to its end.
ExtractionSettles(r) ==
  /\ exit = "running"
  /\ pc[r] = "await"
  /\ LET c == tryCatch(variant,
                       UploadResume(variant, frame[FrameOf(r)], promise[r].lib,
                                    promise[r].buffer.doc))
     IN Finish(r, c, "resume")
  /\ UNCHANGED <<variant, express, req, file, overlap>>

AnalyzeHandler(r) ==
  /\ exit = "running"
  /\ pc[r] = "analyze"
  /\ Finish(r, analyze(reqBody(variant, express, req[r])), "analyze")
  /\ UNCHANGED <<variant, express, req, file, overlap>>

HealthHandler(r) ==
  /\ exit = "running"
  /\ pc[r] = "health"
  /\ Finish(r, Respond(health), "health")
  /\ UNCHANGED <<variant, express, req, file, overlap>>

RootHandler(r) ==
  /\ exit = "running"
  /\ pc[r] = "root"
  /\ Finish(r, Respond(root), "root")
  /\ UNCHANGED <<variant, express, req, file, overlap>>

NotFoundHandler(r) ==
  /\ exit = "running"
  /\ pc[r] = "notfound"
  /\ Finish(r, Respond(notFound(variant)), "notFound")
  /\ UNCHANGED <<variant, express, req, file, overlap>>

ErrorHandler(r) ==
  /\ exit = "running"
  /\ pc[r] = "error"
  /\ Finish(r, Respond(errorMiddleware(variant, error[r])), "errorMiddleware")
  /\ UNCHANGED <<variant, express, req, file, overlap>>

\* SIGTERM / SIGINT: process.exit(0); every connection is dropped.
Shutdown ==
  /\ exit = "running"
  /\ exit' = "signal"
  /\ pc' = [r \in Requests |-> "closed"]
  /\ req' = [r \in Requests |-> NoRequest]
  /\ file' = [r \in Requests |-> NoFile]
  /\ error' = [r \in Requests |-> NoErr]
  /\ frame' = [r \in Requests |-> NoLocals]
  /\ promise' = [r \in Requests |-> NoPromise]
  /\ resp' = [r \in Requests |-> <<>>]
  /\ path' = [r \in Requests |-> <<>>]
  /\ overlap' = [r \in Requests |-> FALSE]
  /\ UNCHANGED <<variant, express>>

Next ==
  \/ \E r \in Requests : Arrive(r)
  \/ \E r \in Requests : Close(r)
  \/ \E r \in Requests : Dispatch(r)
  \/ \E r \in Requests : Multer(r)
  \/ \E r \in Requests : UploadHandler(r)
  \/ \E r \in Requests : ExtractionSettles(r)
  \/ \E r \in Requests : AnalyzeHandler(r)
  \/ \E r \in Requests : HealthHandler(r)
  \/ \E r \in Requests : RootHandler(r)
  \/ \E r \in Requests : NotFoundHandler(r)
  \/ \E r \in Requests : ErrorHandler(r)
  \/ Shutdown

Spec == Init /\ [][Next]_vars

(***************************************************************************)
(* Vocabulary of the properties.                                           *)
(***************************************************************************)
Ran(r, stage) == \E i \in DOMAIN path[r] : path[r][i] = stage
LibCalls(r) == Cardinality({i \in DOMAIN path[r] : path[r][i] \in {"mammoth", "pdf-parse"}})
Ended(r) == pc[r] \in {"done", "hung"}
Answered(r) == pc[r] = "done" /\ Len(resp[r]) = 1
Status(r) == resp[r][1].status
Body(r) == resp[r][1].body
IsUpload(r) == req[r].route = "POST /upload"

\* The filename's suffix, compared without regard to case.
HasSuffix(name, suffix) == endsWith(toLowerCase(name), suffix)
Supported(name) == HasSuffix(name, DotDocx) \/ HasSuffix(name, DotPdf)

\* The extraction call of request r was made and returned / threw.
Extracted(r) == LibCalls(r) > 0 /\ req[r].doc.kind = "return"
ExtractionThrew(r) == LibCalls(r) > 0 /\ req[r].doc.kind = "throw"
HasVisibleChar(v) == v.t = "string" /\ \E i \in DOMAIN v.s : v.s[i] \notin WhiteSpace
\* The stages of a request in progress; each is the guard of one action.
Stages ==
  {"dispatch", "multer", "upload", "await", "analyze", "health", "root", "notfound",
   "error"}

Contains(s, sub) ==
  \E i \in 0..(Len(s) - Len(sub)) : SubSeq(s, i + 1, i + Len(sub)) = sub

(***************************************************************************)
(* C1.  In the enhanced servers, an uploaded file that reaches the handler *)
(* and whose name has neither the .docx nor the .pdf suffix is answered    *)
(* 400 with supportedTypes = [".docx", ".pdf"], whatever its content, and  *)
(* no extraction library is called for it.                                 *)
(***************************************************************************)
C1_UnsupportedType ==
  \A r \in Requests :
    (variant \in Enhanced /\ IsUpload(r) /\ file[r].present
       /\ ~Supported(file[r].originalname))
    => /\ LibCalls(r) = 0
       /\ pc[r] # "await"
       /\ Ended(r) =>
            /\ Answered(r)
            /\ Status(r) = 400
            /\ "supportedTypes" \in DOMAIN Body(r)
            /\ Body(r).supportedTypes = <<DotDocx, DotPdf>>

C1_Witness ==
  /\ variant \in Enhanced
  /\ Answered("r1") /\ IsUpload("r1") /\ file["r1"].present
  /\ ~Supported(file["r1"].originalname)
  /\ req["r1"].doc = Thrown(CorruptFile)
  /\ Status("r1") = 400

(***************************************************************************)
(* C2.  In the servers that configure the limit, an upload whose file is   *)
(* longer than 10 MiB is answered 413 out of body parsing: the handler     *)
(* never runs and no extraction library is called.                         *)
(***************************************************************************)
C2_FileTooLarge ==
  \A r \in Requests :
    (variant \in Enhanced /\ IsUpload(r) /\ req[r].part = "file"
       /\ req[r].size > 10 * 1024 * 1024)
    => /\ ~Ran(r, "upload")
       /\ LibCalls(r) = 0
       /\ pc[r] \notin {"upload", "await"}
       /\ Ended(r) =>
            /\ Answered(r)
            /\ Status(r) = 413
            /\ path[r] = <<"dispatch", "multer", "errorMiddleware">>

C2_Witness ==
  /\ variant \in Enhanced
  /\ Answered("r1") /\ IsUpload("r1")
  /\ req["r1"].size = 10 * 1024 * 1024 + 1
  /\ Supported(req["r1"].filename)
  /\ Status("r1") = 413

(***************************************************************************)
(* C3.  In the enhanced servers, when the extraction call returns and the  *)
(* text is empty, all-whitespace or absent, the answer is 422 with         *)
(* extractedLength the length of the untrimmed text; never 200 or 500.     *)
(***************************************************************************)
C3_NoTextExtracted ==
  \A r \in Requests :
    (variant \in Enhanced /\ IsUpload(r) /\ Ended(r) /\ Extracted(r)
       /\ ~HasVisibleChar(req[r].doc.value))
    => /\ Answered(r)
       /\ Status(r) = 422
       /\ Body(r).extractedLength = Len(req[r].doc.value.s)

(***************************************************************************)
(* C4.  In the enhanced servers /upload answers 200 exactly when a file is *)
(* present, its name has the .docx or .pdf suffix, the extraction call     *)
(* returns and the text has a non-whitespace character; a 200 answer       *)
(* carries the text unchanged, its length, the buffer's byte length and    *)
(* the uploaded filename.                                                  *)
(***************************************************************************)
C4_Success ==
  \A r \in Requests :
    (variant \in Enhanced /\ IsUpload(r) /\ Ended(r))
    => /\ Answered(r)
       /\ Status(r) = 200 <=>
            /\ file[r].present
            /\ Supported(file[r].originalname)
            /\ Extracted(r)
            /\ HasVisibleChar(req[r].doc.value)
       /\ Status(r) = 200 =>
            /\ Body(r).text = req[r].doc.value
            /\ Body(r).metadata.extractedLength = Len(req[r].doc.value.s)
            /\ Body(r).metadata.fileSize = req[r].size
            /\ Body(r).metadata.originalName = req[r].filename

C4_Witness ==
  /\ variant \in Enhanced
  /\ Answered("r1") /\ IsUpload("r1")
  /\ Status("r1") = 200
  /\ req["r1"].doc.value = Str(<<" ", "a">>)
  /\ Body("r1").metadata.extractedLength = 2

(***************************************************************************)
(* C5.  Two uploads in flight together do not mix: while a request is      *)
(* suspended its locals and pending call hold its own file, and its answer *)
(* carries its own text, originalName, fileSize and extractedLength,       *)
(* whatever the other request does in between.                             *)
(***************************************************************************)
C5_NoCrossContamination ==
  \A r \in Requests :
    (variant \in Enhanced /\ IsUpload(r))
    => /\ pc[r] = "await" =>
            /\ frame[FrameOf(r)].originalname = req[r].filename
            /\ frame[FrameOf(r)].fileSize = req[r].size
            /\ promise[r].buffer = Buffer(req[r].size, req[r].doc)
       /\ (Answered(r) /\ Status(r) = 200) =>
            /\ Body(r).text = req[r].doc.value
            /\ Body(r).metadata.originalName = req[r].filename
            /\ Body(r).metadata.fileSize = req[r].size
            /\ Body(r).metadata.extractedLength = Len(req[r].doc.value.s)
       /\ (Answered(r) /\ Status(r) = 422) =>
            Body(r).extractedLength = Len(req[r].doc.value.s)

C5_Witness ==
  /\ variant \in Enhanced
  /\ overlap["r1"] /\ overlap["r2"]
  /\ Answered("r1") /\ Status("r1") = 200
  /\ Answered("r2") /\ Status("r2") = 200
  /\ req["r1"].filename # req["r2"].filename
  /\ req["r1"].size # req["r2"].size
  /\ req["r1"].doc # req["r2"].doc

(***************************************************************************)
(* C6.  In the enhanced servers, when the extraction call throws, the      *)
(* answer is 500 with an error naming DOCX for a .docx file and PDF for a  *)
(* .pdf file and details the library's message; the library is called at   *)
(* most once per request.                                                  *)
(***************************************************************************)
C6_ExtractionFailed ==
  \A r \in Requests :
    (variant \in Enhanced /\ IsUpload(r))
    => /\ LibCalls(r) <= 1
       /\ (Ended(r) /\ ExtractionThrew(r)) =>
            /\ Answered(r)
            /\ Status(r) = 500
            /\ HasSuffix(req[r].filename, DotDocx) =>
                 Body(r).error \in {DocxFailed000, DocxFailed001}
            /\ HasSuffix(req[r].filename, DotPdf) =>
                 Body(r).error \in {PdfFailed000, PdfFailed001}
            /\ "details" \in DOMAIN Body(r)
            /\ Body(r).details = req[r].doc.err.message
            /\ path[r] \in {<<"dispatch", "multer", "upload", "mammoth", "resume">>,
                            <<"dispatch", "multer", "upload", "pdf-parse", "resume">>}

C6_Witness ==
  /\ variant \in Enhanced
  /\ Answered("r1") /\ IsUpload("r1") /\ ExtractionThrew("r1")
  /\ HasSuffix(req["r1"].filename, DotPdf)
  /\ Status("r1") = 500
  /\ Body("r1").details = "corrupt file"

(***************************************************************************)
(* C7.  As claimed: a file-size-limit exception is answered 413 wherever   *)
(* it is thrown while a request is processed, in the multipart middleware  *)
(* or inside a route handler, and every other exception that reaches the   *)
(* error middleware is answered 500 'Internal server error'.               *)
(***************************************************************************)
SizeLimitThrown(r) ==
  \/ error[r] = LimitFileSize
  \/ ExtractionThrew(r) /\ req[r].doc.err = LimitFileSize

C7_Original ==
  \A r \in Requests :
    (variant \in Enhanced /\ Ended(r))
    => /\ SizeLimitThrown(r) => (Answered(r) /\ Status(r) = 413)
       /\ (Ran(r, "errorMiddleware") /\ error[r] # LimitFileSize) =>
            /\ Answered(r)
            /\ Status(r) = 500
            /\ Body(r).error = "Internal server error"

(***************************************************************************)
(* C7, amended.  A file-size-limit exception that reaches the error        *)
(* middleware (one raised by the multipart middleware) is answered 413,    *)
(* and every other exception that reaches it is answered 500 'Internal     *)
(* server error'; an exception thrown inside the /upload handler never     *)
(* reaches the error middleware: the handler's own catch answers it 500,   *)
(* a file-size-limit exception included.                                   *)
(***************************************************************************)
C7_ErrorMiddleware ==
  \A r \in Requests :
    (variant \in Enhanced /\ Ended(r))
    => /\ Ran(r, "errorMiddleware") =>
            /\ Answered(r)
            /\ error[r] = LimitFileSize => Status(r) = 413
            /\ error[r] # LimitFileSize =>
                 (Status(r) = 500 /\ Body(r).error = "Internal server error")
       /\ ExtractionThrew(r) =>
            /\ ~Ran(r, "errorMiddleware")
            /\ Answered(r)
            /\ Status(r) = 500

\* One file-size-limit exception thrown inside the handler and answered by its
\* catch, another raised by the multipart middleware and answered 413.
C7_Witness ==
  /\ variant \in Enhanced
  /\ Answered("r1") /\ ExtractionThrew("r1")
  /\ req["r1"].doc.err = LimitFileSize
  /\ Status("r1") = 500
  /\ Answered("r2") /\ Ran("r2", "errorMiddleware")
  /\ error["r2"] = LimitFileSize /\ Status("r2") = 413

\* Another exception reaching the error middleware.
C7_WitnessOther ==
  /\ variant \in Enhanced
  /\ Answered("r1") /\ Ran("r1", "errorMiddleware")
  /\ error["r1"] = LimitUnexpectedFile
  /\ Body("r1").error = "Internal server error"

(***************************************************************************)
(* C8.  As claimed: in every server of the repository, a file whose        *)
(* lower-cased name ends in .docx goes to the DOCX extractor and one whose *)
(* lower-cased name ends in .pdf to the PDF extractor, and neither is      *)
(* rejected as an unsupported type.                                        *)
(***************************************************************************)
C8_CaseInsensitiveDispatch ==
  \A r \in Requests :
    (IsUpload(r) /\ file[r].present /\ (pc[r] = "await" \/ Ended(r)))
    => /\ HasSuffix(file[r].originalname, DotDocx) =>
            (Ran(r, "mammoth") /\ ~Ran(r, "pdf-parse"))
       /\ HasSuffix(file[r].originalname, DotPdf) =>
            (Ran(r, "pdf-parse") /\ ~Ran(r, "mammoth"))
       /\ (Supported(file[r].originalname) /\ Answered(r)) => Status(r) # 400

(***************************************************************************)
(* C9.  POST /analyze answers 200 whenever a body reaches its handler      *)
(* (req.body is an object): the summary contains "(<n> / <m> characters)"  *)
(* with n and m the lengths of accommodations and lessonPlan, an absent or *)
(* empty field counting 0, and received holds the two fields as sent.      *)
(***************************************************************************)
SentLength(x) == IF x.t = "string" THEN Len(x.s) ELSE 0

C9_Analyze ==
  \A r \in Requests :
    (Ran(r, "analyze") /\ Ended(r) /\ reqBody(variant, express, req[r]).defined)
    => /\ Answered(r)
       /\ Status(r) = 200
       /\ Contains(Body(r).summary,
                   <<"(">> \o Decimal(SentLength(req[r].accommodations))
                     \o <<" ", "/", " ">> \o Decimal(SentLength(req[r].lessonPlan))
                     \o <<" ", "c", "h", "a", "r", "a", "c", "t", "e", "r", "s", ")">>)
       /\ \A k \in {"accommodations", "lessonPlan"} :
            IF req[r][k] = Undefined
            THEN k \notin DOMAIN Body(r).received
            ELSE k \in DOMAIN Body(r).received /\ Body(r).received[k] = req[r][k]

C9_Witness ==
  /\ Answered("r1") /\ Ran("r1", "analyze")
  /\ req["r1"].accommodations = Str(<<"a", "b", "c">>)
  /\ req["r1"].lessonPlan = Str(<<>>)
  /\ Contains(Body("r1").summary,
              <<"(", "3", " ", "/", " ", "0", " ", "c", "h", "a", "r", "a", "c", "t",
                "e", "r", "s", ")">>)
  /\ Body("r1").received = [accommodations |-> Str(<<"a", "b", "c">>),
                            lessonPlan |-> Str(<<>>)]

C9_WitnessAbsent ==
  /\ Answered("r1") /\ Ran("r1", "analyze")
  /\ req["r1"].json = "object"
  /\ req["r1"].accommodations = Undefined
  /\ Status("r1") = 200

\* No body reaches the handler (Express 5, a request without a JSON body): the
\* handler's catch answers 500.
C9_WitnessNoBody ==
  /\ Answered("r1") /\ Ran("r1", "analyze")
  /\ ~reqBody(variant, express, req["r1"]).defined
  /\ Status("r1") = 500
  /\ Body("r1").error = "Failed to analyze input."

(***************************************************************************)
(* C10.  Every request gets exactly one response: none is sent twice, a    *)
(* request in progress is at a stage that has a step (a suspended handler  *)
(* can resume with whatever the library settles with, an error handed on   *)
(* can be answered by the error middleware) and ends answered, no request  *)
(* failure ends the process, and the answer to a request depends on the    *)
(* request alone, not on the failures before it.                           *)
(***************************************************************************)
C10_ExactlyOneResponse ==
  /\ exit \in {"running", "signal"}
  /\ \A r \in Requests :
       /\ Len(resp[r]) <= 1
       /\ pc[r] # "hung"
       /\ pc[r] = "done" <=> (exit = "running" /\ Len(resp[r]) = 1)
       /\ (exit = "running" /\ pc[r] \notin {"idle", "done"}) => pc[r] \in Stages
       /\ (exit = "running" /\ pc[r] = "await") => ENABLED ExtractionSettles(r)
       /\ (exit = "running" /\ pc[r] = "error") => ENABLED ErrorHandler(r)
  /\ \A r1, r2 \in Requests :
       (pc[r1] = "done" /\ pc[r2] = "done" /\ req[r1] = req[r2]) => resp[r1] = resp[r2]

\* A request failed in the handler's outer catch, and a later one was answered.
C10_Witness ==
  /\ Answered("r2") /\ IsUpload("r2") /\ Extracted("r2")
  /\ req["r2"].doc.value = Undefined /\ Status("r2") = 500
  /\ Answered("r1") /\ req["r1"] = req["r2"]
  /\ variant \in Enhanced

====
